---- MODULE Spec2Model ----
(***************************************************************************)
(* Model of the configuration-language converter (src/config_parser.py):   *)
(* the lexer ConfigParser.tokenize, the recursive-descent parser, the      *)
(* variable-substitution resolver and the materializer.                    *)
(*                                                                         *)
(* A text is a sequence of one-character strings.  Positions are 1-based   *)
(* here, so the Python index p is the position p + 1 of the model.         *)
(***************************************************************************)
EXTENDS Integers, Sequences, FiniteSets, TLC

(***************************************************************************)
(* Character classes used by the lexer                                     *)
(***************************************************************************)
Space == {" ", "\n"}

Digit == {"0", "1", "2", "3", "4", "5", "6", "7", "8", "9"}

Letter == {"a", "b", "c", "d", "e", "f", "g", "h", "i", "j", "k", "l", "m",
           "n", "o", "p", "q", "r", "s", "t", "u", "v", "w", "x", "y", "z",
           "A", "B", "Z"}

IdentChar == Letter \cup Digit \cup {"_"}

Punct == {"(", ")", "[", "]", ",", "=", "$", ";"}

(***************************************************************************)
(* Sequence helpers                                                        *)
(***************************************************************************)
Slice(s, a, b) == IF a > b THEN << >> ELSE SubSeq(s, a, b)

\* s[i:i+len(p)] == p
StartsWithAt(s, i, p) ==
    /\ i + Len(p) - 1 <= Len(s)
    /\ \A k \in 1..Len(p) : s[i + k - 1] = p[k]

\* str.find(p, i): the first position >= i where p occurs, 0 when there is none
Find(s, p, i) ==
    LET hits == {j \in i..(Len(s) - Len(p) + 1) : StartsWithAt(s, j, p)}
    IN  IF hits = {} THEN 0 ELSE CHOOSE j \in hits : \A h \in hits : j <= h

\* the end (exclusive) of the maximal run of characters of class C starting at i
RECURSIVE RunEnd(_, _, _)
RunEnd(s, i, C) ==
    IF i <= Len(s) /\ s[i] \in C THEN RunEnd(s, i + 1, C) ELSE i

(***************************************************************************)
(* float(...) of a matched number literal and str(...) of a float          *)
(***************************************************************************)
DigitVal(c) ==
    CASE c = "0" -> 0 [] c = "1" -> 1 [] c = "2" -> 2 [] c = "3" -> 3
      [] c = "4" -> 4 [] c = "5" -> 5 [] c = "6" -> 6 [] c = "7" -> 7
      [] c = "8" -> 8 [] c = "9" -> 9

DigitChar(d) == CHOOSE c \in Digit : DigitVal(c) = d

RECURSIVE IntOf(_)
IntOf(ds) ==
    IF ds = << >> THEN 0
    ELSE 10 * IntOf(SubSeq(ds, 1, Len(ds) - 1)) + DigitVal(ds[Len(ds)])

RECURSIVE StripZeros(_)
StripZeros(ds) ==
    IF ds # << >> /\ ds[Len(ds)] = "0" THEN StripZeros(SubSeq(ds, 1, Len(ds) - 1))
    ELSE ds

\* the float denoted by sign, integer digits and fraction digits: the sign,
\* the integer part and the fraction digits without trailing zeros
ToFloat(sign, ip, fr) ==
    [neg |-> sign = "-", ip |-> IntOf(ip), fr |-> StripZeros(fr)]

RECURSIVE DecStr(_)
DecStr(n) ==
    IF n < 10 THEN <<DigitChar(n)>>
    ELSE Append(DecStr(n \div 10), DigitChar(n % 10))

\* str(float) for the magnitudes of the model (positional notation)
FloatStr(f) ==
    (IF f.neg THEN <<"-">> ELSE << >>) \o DecStr(f.ip) \o <<".">>
        \o (IF f.fr = << >> THEN <<"0">> ELSE f.fr)

(***************************************************************************)
(* ConfigParser.tokenize                                                   *)
(***************************************************************************)
Token(type, value, line) == [type |-> type, value |-> value, line |-> line]

SyntaxError(line) == [kind |-> "SyntaxError", line |-> line]

\* a number pattern whose fraction is optional: [+-]?\d+(\.\d+)?
NumMatchOptionalFraction(s, i) ==
    LET d0 == IF i <= Len(s) /\ s[i] \in {"+", "-"} THEN i + 1 ELSE i
        d1 == RunEnd(s, d0, Digit)
        f1 == RunEnd(s, d1 + 1, Digit)
    IN  IF d1 = d0 THEN 0
        ELSE IF d1 <= Len(s) /\ s[d1] = "." /\ f1 > d1 + 1 THEN f1
        ELSE d1

\* re.match(r'[+-]?\d+\.\d+', text[i:]): the end (exclusive) of the match,
\* 0 when there is no match
NumMatch(s, i) ==
    LET d0 == IF i <= Len(s) /\ s[i] \in {"+", "-"} THEN i + 1 ELSE i
        d1 == RunEnd(s, d0, Digit)
        f1 == RunEnd(s, d1 + 1, Digit)
    IN  IF d1 > d0 /\ d1 <= Len(s) /\ s[d1] = "." /\ f1 > d1 + 1 THEN f1 ELSE 0

NumValue(s, i, e) ==
    LET d0 == IF s[i] \in {"+", "-"} THEN i + 1 ELSE i
        d1 == RunEnd(s, d0, Digit)
    IN  ToFloat(IF d0 > i THEN s[i] ELSE "+", Slice(s, d0, d1 - 1), Slice(s, d1 + 1, e - 1))

\* re.match(r'[a-zA-Z][_a-zA-Z0-9]*', text[i:]): end (exclusive), 0 when none
IdMatch(s, i) ==
    IF i <= Len(s) /\ s[i] \in Letter THEN RunEnd(s, i + 1, IdentChar) ELSE 0

TokenType(word) ==
    CASE word = <<"v", "a", "r">> -> "VAR"
      [] word = <<"l", "i", "s", "t">> -> "LIST"
      [] word = <<"t", "a", "b", "l", "e">> -> "TABLE"
      [] OTHER -> "ID"

\* where the lexer goes on after the line comment that starts at i: at the
\* newline that ends it; 0 when the comment runs to the end of the text
LineCommentEnd(s, i) == Find(s, <<"\n">>, i)

\* a block comment skipped one character short: i += 2
BlockCommentEndShort(s, i) ==
    LET j == Find(s, <<"!", "}", "}">>, i)
    IN  IF j = 0 THEN 0 ELSE j + 2

\* where the lexer goes on after the block comment that starts at i: behind
\* the first !}} found from i on; 0 when there is none
BlockCommentEnd(s, i) ==
    LET j == Find(s, <<"!", "}", "}">>, i)
    IN  IF j = 0 THEN 0 ELSE j + 3

\* one iteration of the while loop of tokenize at position i: what it does
\* (go on, stop at the end of the text, or raise), the position and the line
\* counter it leaves, and the token it appends, if any
LexStep(s, i, line) ==
    LET Go(next, ln, toks) == [act |-> "go", next |-> next, line |-> ln, toks |-> toks]
        Break == [act |-> "break", next |-> i, line |-> line, toks |-> << >>]
        Fail == [act |-> "raise", next |-> i, line |-> line, toks |-> << >>]
    IN  IF s[i] \in Space
        THEN Go(i + 1, IF s[i] = "\n" THEN line + 1 ELSE line, << >>)
        ELSE IF StartsWithAt(s, i, <<":", ":">>)
             THEN LET j == LineCommentEnd(s, i)
                  IN  IF j = 0 THEN Break ELSE Go(j, line, << >>)
        ELSE IF StartsWithAt(s, i, <<"{", "{", "!">>)
             THEN LET j == BlockCommentEnd(s, i)
                  IN  IF j = 0 THEN Break ELSE Go(j, line, << >>)
        ELSE IF NumMatch(s, i) # 0
             THEN LET e == NumMatch(s, i)
                  IN  Go(e, line, <<Token("NUMBER", NumValue(s, i, e), line)>>)
        ELSE IF StartsWithAt(s, i, <<"@", "\"">>)
             THEN LET end == Find(s, <<"\"">>, i + 2)
                  IN  IF end = 0 THEN Fail
                      ELSE Go(end + 1, line, <<Token("STRING", Slice(s, i + 2, end - 1), line)>>)
        ELSE IF IdMatch(s, i) # 0
             THEN LET e == IdMatch(s, i)
                      w == Slice(s, i, e - 1)
                  IN  Go(e, line, <<Token(TokenType(w), w, line)>>)
        ELSE IF s[i] \in Punct
             THEN Go(i + 1, line, <<Token(s[i], <<s[i]>>, line)>>)
        ELSE Fail

\* the while loop of tokenize, from position i with the tokens and the line
\* counter so far; the result carries the line counter it leaves behind
RECURSIVE Lex(_, _, _, _)
Lex(s, i, toks, line) ==
    IF i > Len(s) THEN [ok |-> TRUE, tokens |-> toks, line |-> line]
    ELSE LET st == LexStep(s, i, line)
         IN  CASE st.act = "go" -> Lex(s, st.next, toks \o st.toks, st.line)
               [] st.act = "break" -> [ok |-> TRUE, tokens |-> toks, line |-> line]
               [] st.act = "raise" -> [ok |-> FALSE, err |-> SyntaxError(line), line |-> line]

tokenize(text, current_line) == Lex(text, 1, << >>, current_line)

(***************************************************************************)
(* The intermediate value tree (the ConfigValue dataclasses)               *)
(***************************************************************************)
NumberValue(v) == [t |-> "Number", value |-> v]

StringValue(v, hv) == [t |-> "String", value |-> v, has_vars |-> hv]

ListValue(vs) == [t |-> "List", values |-> vs]

TableValue(items) == [t |-> "Table", items |-> items]

VarRefValue(name) == [t |-> "VarRef", name |-> name]

(***************************************************************************)
(* A Python dict: the sequence of its (key, value) pairs in insertion      *)
(* order; assigning to a key that is present keeps the key's place.        *)
(***************************************************************************)
DictHas(d, k) == \E i \in 1..Len(d) : d[i].k = k

DictGet(d, k) == d[CHOOSE i \in 1..Len(d) : d[i].k = k].v

DictSet(d, k, v) ==
    IF DictHas(d, k)
    THEN [i \in 1..Len(d) |-> IF d[i].k = k THEN [k |-> k, v |-> v] ELSE d[i]]
    ELSE Append(d, [k |-> k, v |-> v])

(***************************************************************************)
(* The recursive-descent parser.  Every operator takes the token list and  *)
(* the cursor self.pos and yields the value with the cursor it leaves, or  *)
(* the exception it raises.                                                *)
(***************************************************************************)
IndexError == [kind |-> "IndexError", line |-> 0]

\* tokens[p][1] == c: the payload of a NUMBER token is a float, never a text
PayloadIs(tokens, p, c) == tokens[p].type # "NUMBER" /\ tokens[p].value = <<c>>

\* raise SyntaxError(f'... {self.tokens[p][2]}'): reading the line of a token
\* past the end raises IndexError instead
ErrAt(tokens, p) ==
    IF p \in 1..Len(tokens) THEN SyntaxError(tokens[p].line) ELSE IndexError

Ok(val, pos) == [ok |-> TRUE, val |-> val, pos |-> pos]

Raise(err) == [ok |-> FALSE, err |-> err]

parse_var_reference(tokens, pos) ==
    LET p1 == pos + 1
        p2 == p1 + 1
    IN  IF p1 > Len(tokens) \/ tokens[p1].type # "ID" THEN Raise(ErrAt(tokens, p1 - 1))
        ELSE IF p2 <= Len(tokens) /\ PayloadIs(tokens, p2, ".")
             THEN Raise(SyntaxError(tokens[p2].line))
        ELSE IF p2 > Len(tokens) \/ ~PayloadIs(tokens, p2, "$")
             THEN Raise(ErrAt(tokens, p2 - 1))
        ELSE Ok(VarRefValue(tokens[p1].value), p2 + 1)

RECURSIVE parse_value(_, _)
RECURSIVE ListLoop(_, _, _)
RECURSIVE TableLoop(_, _, _)

\* the while loop of parse_list and the check of ')' that follows it
ListLoop(tokens, pos, values) ==
    IF pos <= Len(tokens) /\ ~PayloadIs(tokens, pos, ")")
    THEN LET r == parse_value(tokens, pos)
         IN  IF ~r.ok THEN r
             ELSE IF r.pos <= Len(tokens) /\ PayloadIs(tokens, r.pos, ",")
                  THEN ListLoop(tokens, r.pos + 1, Append(values, r.val))
             ELSE IF r.pos <= Len(tokens) /\ ~PayloadIs(tokens, r.pos, ")")
                  THEN Raise(SyntaxError(tokens[r.pos].line))
             ELSE ListLoop(tokens, r.pos, Append(values, r.val))
    ELSE IF pos > Len(tokens) \/ ~PayloadIs(tokens, pos, ")")
         THEN Raise(ErrAt(tokens, pos - 1))
    ELSE Ok(ListValue(values), pos + 1)

parse_list(tokens, pos) ==
    LET p1 == pos + 1
        p2 == p1 + 1
    IN  IF p1 > Len(tokens) \/ ~PayloadIs(tokens, p1, "(") THEN Raise(ErrAt(tokens, p1 - 1))
        ELSE IF p2 <= Len(tokens) /\ PayloadIs(tokens, p2, ")")
             THEN Ok(ListValue(<< >>), p2 + 1)
        ELSE ListLoop(tokens, p2, << >>)

\* the while loop of parse_table and the checks of ']' and ')' after it
TableLoop(tokens, pos, items) ==
    IF pos <= Len(tokens) /\ ~PayloadIs(tokens, pos, "]")
    THEN IF tokens[pos].type # "ID" THEN Raise(ErrAt(tokens, pos - 1))
         ELSE IF pos + 1 > Len(tokens) \/ ~PayloadIs(tokens, pos + 1, "=")
              THEN Raise(ErrAt(tokens, pos))
         ELSE LET r == parse_value(tokens, pos + 2)
                  key == tokens[pos].value
              IN  IF ~r.ok THEN r
                  ELSE IF r.pos <= Len(tokens) /\ PayloadIs(tokens, r.pos, ",")
                       THEN TableLoop(tokens, r.pos + 1, DictSet(items, key, r.val))
                  ELSE IF r.pos <= Len(tokens) /\ ~PayloadIs(tokens, r.pos, "]")
                       THEN Raise(SyntaxError(tokens[r.pos].line))
                  ELSE TableLoop(tokens, r.pos, DictSet(items, key, r.val))
    ELSE IF pos > Len(tokens) \/ ~PayloadIs(tokens, pos, "]")
         THEN Raise(ErrAt(tokens, pos - 1))
    ELSE IF pos + 1 > Len(tokens) \/ ~PayloadIs(tokens, pos + 1, ")")
         THEN Raise(ErrAt(tokens, pos))
    ELSE Ok(TableValue(items), pos + 2)

parse_table(tokens, pos) ==
    LET p1 == pos + 1
        p2 == p1 + 1
        p3 == p2 + 1
    IN  IF p1 > Len(tokens) \/ ~PayloadIs(tokens, p1, "(") THEN Raise(ErrAt(tokens, p1 - 1))
        ELSE IF p2 > Len(tokens) \/ ~PayloadIs(tokens, p2, "[")
             THEN Raise(ErrAt(tokens, p2 - 1))
        ELSE IF p3 <= Len(tokens) /\ PayloadIs(tokens, p3, "]")
             THEN Ok(TableValue(<< >>), p3 + 2)
        ELSE TableLoop(tokens, p3, << >>)

parse_value(tokens, pos) ==
    IF pos > Len(tokens) THEN Raise(SyntaxError(0))
    ELSE LET tok == tokens[pos]
         IN  CASE tok.type = "NUMBER" -> Ok(NumberValue(tok.value), pos + 1)
               [] tok.type = "STRING" ->
                    Ok(StringValue(tok.value, \E i \in 1..Len(tok.value) : tok.value[i] = "$"),
                       pos + 1)
               [] tok.type = "LIST" -> parse_list(tokens, pos)
               [] tok.type = "TABLE" -> parse_table(tokens, pos)
               [] tok.type = "$" -> parse_var_reference(tokens, pos)
               [] OTHER -> Raise(SyntaxError(tok.line))

\* parse_var_declaration: the cursor and the variable table it leaves, with
\* the exception when it raises (the binding is stored before ';' is checked)
parse_var_declaration(tokens, pos, variables) ==
    LET p1 == pos + 1
        p2 == p1 + 1
        p3 == p2 + 1
    IN  IF p1 > Len(tokens) \/ tokens[p1].type # "ID"
        THEN [ok |-> FALSE, err |-> ErrAt(tokens, p1 - 1), variables |-> variables]
        ELSE IF p2 > Len(tokens) \/ ~PayloadIs(tokens, p2, "=")
             THEN [ok |-> FALSE, err |-> ErrAt(tokens, p2 - 1), variables |-> variables]
        ELSE LET r == parse_value(tokens, p3)
             IN  IF ~r.ok THEN [ok |-> FALSE, err |-> r.err, variables |-> variables]
                 ELSE LET vs == DictSet(variables, tokens[p1].value, r.val)
                      IN  IF r.pos > Len(tokens) \/ ~PayloadIs(tokens, r.pos, ";")
                          THEN [ok |-> FALSE, err |-> ErrAt(tokens, r.pos - 1), variables |-> vs]
                          ELSE [ok |-> TRUE, pos |-> r.pos + 1, variables |-> vs]

\* the top-level loop of parse: declarations are parsed, other tokens skipped
RECURSIVE ParseLoop(_, _, _)
ParseLoop(tokens, pos, variables) ==
    IF pos > Len(tokens) THEN [ok |-> TRUE, variables |-> variables]
    ELSE IF tokens[pos].type = "VAR"
         THEN LET r == parse_var_declaration(tokens, pos, variables)
              IN  IF r.ok THEN ParseLoop(tokens, r.pos, r.variables)
                  ELSE [ok |-> FALSE, err |-> r.err, variables |-> r.variables]
    ELSE ParseLoop(tokens, pos + 1, variables)

(***************************************************************************)
(* Text helpers of the resolver                                            *)
(***************************************************************************)
Contains(s, c) == \E i \in 1..Len(s) : s[i] = c

\* re.match(r'^[a-zA-Z][_a-zA-Z0-9]*$', name)
IsIdentifier(name) ==
    /\ name # << >>
    /\ name[1] \in Letter
    /\ \A i \in 2..Len(name) : name[i] \in IdentChar

\* re.findall(r'\$([^$\n]+?)\$', s): the captured names, left to right
RECURSIVE FindAll(_, _)
FindAll(s, i) ==
    IF i > Len(s) THEN << >>
    ELSE IF s[i] # "$" THEN FindAll(s, i + 1)
    ELSE LET hits == {k \in (i + 1)..Len(s) : s[k] \in {"$", "\n"}}
             j == IF hits = {} THEN 0 ELSE CHOOSE k \in hits : \A h \in hits : k <= h
         IN  IF j > i + 1 /\ s[j] = "$"
             THEN <<Slice(s, i + 1, j - 1)>> \o FindAll(s, j + 1)
             ELSE FindAll(s, i + 1)

\* str.replace(old, new): every non-overlapping occurrence, left to right
RECURSIVE Replace(_, _, _, _)
Replace(s, i, old, new) ==
    IF i > Len(s) THEN << >>
    ELSE IF StartsWithAt(s, i, old) THEN new \o Replace(s, i + Len(old), old, new)
    ELSE <<s[i]>> \o Replace(s, i + 1, old, new)

\* repr(str) for the characters of the model: the quote is " when the text
\* holds ' and no ", else '; backslash, the quote and newline are escaped
RECURSIVE Escape(_, _)
Escape(s, q) ==
    IF s = << >> THEN << >>
    ELSE (CASE s[1] = "\\" -> <<"\\", "\\">>
            [] s[1] = q -> <<"\\", q>>
            [] s[1] = "\n" -> <<"\\", "n">>
            [] OTHER -> <<s[1]>>) \o Escape(Tail(s), q)

Repr(s) ==
    LET q == IF Contains(s, "'") /\ ~Contains(s, "\"") THEN "\"" ELSE "'"
    IN  <<q>> \o Escape(s, q) \o <<q>>

\* ', '.join(parts)
RECURSIVE Join(_)
Join(parts) ==
    IF parts = << >> THEN << >>
    ELSE IF Len(parts) = 1 THEN parts[1]
    ELSE parts[1] \o <<",", " ">> \o Join(Tail(parts))

(***************************************************************************)
(* get_string_value: the textual form used inside strings.  hops is the    *)
(* number of reference hops still allowed on this path: a path with more   *)
(* hops than there are variables repeats a variable and never ends, which  *)
(* Python reports as RecursionError.                                       *)
(***************************************************************************)
RecursionError == [kind |-> "RecursionError", line |-> 0]

NameError == [kind |-> "NameError", line |-> 0]

OkV(val) == [ok |-> TRUE, val |-> val]

RECURSIVE get_string_value(_, _, _)
RECURSIVE StrEach(_, _, _, _)

\* the textual forms of the values vs[i..], in order
StrEach(vs, i, variables, hops) ==
    IF i > Len(vs) THEN OkV(<< >>)
    ELSE LET r == get_string_value(vs[i], variables, hops)
         IN  IF ~r.ok THEN r
             ELSE LET rest == StrEach(vs, i + 1, variables, hops)
                  IN  IF ~rest.ok THEN rest ELSE OkV(<<r.val>> \o rest.val)

get_string_value(value, variables, hops) ==
    CASE value.t = "Number" -> OkV(FloatStr(value.value))
      [] value.t = "String" -> OkV(value.value)
      [] value.t = "VarRef" ->
           IF DictHas(variables, value.name)
           THEN IF hops = 0 THEN Raise(RecursionError)
                ELSE get_string_value(DictGet(variables, value.name), variables, hops - 1)
           ELSE OkV(<<"$">> \o value.name \o <<"$">>)
      [] value.t = "List" ->
           LET r == StrEach(value.values, 1, variables, hops)
           IN  IF ~r.ok THEN r
               ELSE OkV(<<"[">> \o Join([i \in 1..Len(r.val) |-> Repr(r.val[i])]) \o <<"]">>)
      [] value.t = "Table" ->
           LET r == StrEach([i \in 1..Len(value.items) |-> value.items[i].v], 1, variables, hops)
           IN  IF ~r.ok THEN r
               ELSE OkV(<<"{">> \o Join([i \in 1..Len(r.val) |->
                            Repr(value.items[i].k) \o <<":", " ">> \o Repr(r.val[i])]) \o <<"}">>)

(***************************************************************************)
(* substitute_vars_in_value                                                *)
(***************************************************************************)
\* the loop without the checks of the name: no dot, identifier format
RECURSIVE SubstMatchesNoNameCheck(_, _, _, _)
SubstMatchesNoNameCheck(result, matches, i, variables) ==
    IF i > Len(matches) THEN OkV(StringValue(result, FALSE))
    ELSE LET var_name == matches[i]
         IN  IF DictHas(variables, var_name)
             THEN LET r == get_string_value(DictGet(variables, var_name), variables,
                                            Len(variables))
                  IN  IF ~r.ok THEN r
                      ELSE SubstMatchesNoNameCheck(
                               Replace(result, 1, <<"$">> \o var_name \o <<"$">>, r.val),
                               matches, i + 1, variables)
             ELSE Raise(NameError)

\* the loop that leaves the span of an unknown name as it is
RECURSIVE SubstMatchesKeepUnknown(_, _, _, _)
SubstMatchesKeepUnknown(result, matches, i, variables) ==
    IF i > Len(matches) THEN OkV(StringValue(result, FALSE))
    ELSE LET var_name == matches[i]
         IN  IF Contains(var_name, ".") THEN Raise(SyntaxError(0))
             ELSE IF ~IsIdentifier(var_name) THEN Raise(SyntaxError(0))
             ELSE IF DictHas(variables, var_name)
                  THEN LET r == get_string_value(DictGet(variables, var_name), variables,
                                                 Len(variables))
                       IN  IF ~r.ok THEN r
                           ELSE SubstMatchesKeepUnknown(
                                    Replace(result, 1, <<"$">> \o var_name \o <<"$">>, r.val),
                                    matches, i + 1, variables)
             ELSE SubstMatchesKeepUnknown(result, matches, i + 1, variables)

\* the for loop over the matches of a string with has_vars
RECURSIVE SubstMatches(_, _, _, _)
SubstMatches(result, matches, i, variables) ==
    IF i > Len(matches) THEN OkV(StringValue(result, FALSE))
    ELSE LET var_name == matches[i]
         IN  IF Contains(var_name, ".") THEN Raise(SyntaxError(0))
             ELSE IF ~IsIdentifier(var_name) THEN Raise(SyntaxError(0))
             ELSE IF DictHas(variables, var_name)
                  THEN LET r == get_string_value(DictGet(variables, var_name), variables,
                                                 Len(variables))
                       IN  IF ~r.ok THEN r
                           ELSE SubstMatches(
                                    Replace(result, 1, <<"$">> \o var_name \o <<"$">>, r.val),
                                    matches, i + 1, variables)
             ELSE Raise(NameError)

RECURSIVE substitute_vars_in_value(_, _, _)
RECURSIVE SubstEach(_, _, _, _)

\* the resolved values of vs[i..], in order; the first exception wins
SubstEach(vs, i, variables, hops) ==
    IF i > Len(vs) THEN OkV(<< >>)
    ELSE LET r == substitute_vars_in_value(vs[i], variables, hops)
         IN  IF ~r.ok THEN r
             ELSE LET rest == SubstEach(vs, i + 1, variables, hops)
                  IN  IF ~rest.ok THEN rest ELSE OkV(<<r.val>> \o rest.val)

substitute_vars_in_value(value, variables, hops) ==
    CASE value.t = "Number" -> OkV(value)
      [] value.t = "String" ->
           IF value.has_vars
           THEN SubstMatches(value.value, FindAll(value.value, 1), 1, variables)
           ELSE OkV(value)
      [] value.t = "VarRef" ->
           IF Contains(value.name, ".") THEN Raise(SyntaxError(0))
           ELSE IF ~IsIdentifier(value.name) THEN Raise(SyntaxError(0))
           ELSE IF DictHas(variables, value.name)
                THEN IF hops = 0 THEN Raise(RecursionError)
                     ELSE substitute_vars_in_value(DictGet(variables, value.name),
                                                   variables, hops - 1)
           ELSE Raise(NameError)
      [] value.t = "List" ->
           LET r == SubstEach(value.values, 1, variables, hops)
           IN  IF ~r.ok THEN r ELSE OkV(ListValue(r.val))
      [] value.t = "Table" ->
           LET r == SubstEach([i \in 1..Len(value.items) |-> value.items[i].v], 1,
                              variables, hops)
           IN  IF ~r.ok THEN r
               ELSE OkV(TableValue([i \in 1..Len(value.items) |->
                                       [k |-> value.items[i].k, v |-> r.val[i]]]))

\* process_variable_substitution: every binding is replaced in place by its
\* resolved value, in the order of the table; the table it leaves comes with
\* the exception when one is raised
RECURSIVE SubstLoop(_, _)
SubstLoop(variables, i) ==
    IF i > Len(variables) THEN [ok |-> TRUE, variables |-> variables]
    ELSE LET r == substitute_vars_in_value(variables[i].v, variables, Len(variables))
         IN  IF ~r.ok THEN [ok |-> FALSE, err |-> r.err, variables |-> variables]
             ELSE SubstLoop(DictSet(variables, variables[i].k, r.val), i + 1)

process_variable_substitution(variables) == SubstLoop(variables, 1)

(***************************************************************************)
(* convert_value and convert_variables: the materialized output            *)
(***************************************************************************)
RECURSIVE convert_value(_)
convert_value(value) ==
    CASE value.t = "Number" -> [py |-> "float", value |-> value.value]
      [] value.t = "String" -> [py |-> "str", value |-> value.value]
      [] value.t = "List" ->
           [py |-> "list", values |-> [i \in 1..Len(value.values) |->
                                          convert_value(value.values[i])]]
      [] value.t = "Table" ->
           [py |-> "dict", items |-> [i \in 1..Len(value.items) |->
               [k |-> value.items[i].k, v |-> convert_value(value.items[i].v)]]]
      [] OTHER -> value

convert_variables(variables) ==
    [py |-> "dict", items |-> [i \in 1..Len(variables) |->
        [k |-> variables[i].k, v |-> convert_value(variables[i].v)]]]

(***************************************************************************)
(* ConfigParser.parse as a function of the text and of the parser's        *)
(* fields: the value it returns or the exception it raises                 *)
(***************************************************************************)
Returned(v) == [ret |-> "value", value |-> v]

Raised(e) == [ret |-> "raise", err |-> e]

parse(text, variables0, line0) ==
    LET t == tokenize(text, line0)
    IN  IF ~t.ok THEN Raised(t.err)
        ELSE LET p == ParseLoop(t.tokens, 1, variables0)
             IN  IF ~p.ok THEN Raised(p.err)
                 ELSE LET r == process_variable_substitution(p.variables)
                      IN  IF ~r.ok THEN Raised(r.err)
                          ELSE Returned(convert_variables(r.variables))

\* parse_config_to_json: a new parser for every call
parse_config_to_json(text) == parse(text, << >>, 1)

(***************************************************************************)
(* The inputs.  A config is written as a sequence of lexemes, joined by    *)
(* single spaces to give the text.                                         *)
(***************************************************************************)
kwVar == <<"v", "a", "r">>
kwList == <<"l", "i", "s", "t">>
kwTable == <<"t", "a", "b", "l", "e">>
lxEq == <<"=">>
lxSemi == <<";">>
lxLP == <<"(">>
lxRP == <<")">>
lxLB == <<"[">>
lxRB == <<"]">>
lxComma == <<",">>
lxDollar == <<"$">>
lxNewline == <<"\n">>
lxDot == <<".">>
lxOne == <<"1", ".", "0">>
lxNum == <<"-", "0", "2", ".", "5", "0">>
lxInt == <<"1", "0">>
lxIntId == <<"5", "x">>

\* the string literal @"text"
Str(text) == <<"@", "\"">> \o text \o <<"\"">>

lxLineComment == <<":", ":", " ", "c", "\n">>
lxLineCommentEnd == <<":", ":", " ", "c">>
lxBlockComment == <<"{", "{", "!", " ", "c", "\n", "!", "}", "}">>
lxBlockOpen == <<"{", "{", "!", " ", "c">>
\* a string literal that holds a newline
lxTwoLineString == <<"@", "\"", "s", "\n", "t", "\"">>

RECURSIVE Text(_)
Text(lexemes) ==
    IF lexemes = << >> THEN << >>
    ELSE IF Len(lexemes) = 1 THEN lexemes[1]
    ELSE lexemes[1] \o <<" ">> \o Text(Tail(lexemes))

\* the declaration var name = value ;
Decl(name, value) == <<kwVar, name, lxEq>> \o value \o <<lxSemi>>

ListOf2(x, y) == <<kwList, lxLP>> \o x \o <<lxComma>> \o y \o <<lxRP>>

TableOf2(k, x, j, y) ==
    <<kwTable, lxLP, lxLB, k, lxEq>> \o x \o <<lxComma, j, lxEq>> \o y \o <<lxRB, lxRP>>

\* the valid configs that the edits start from
EditBases ==
    { Decl(<<"a">>, <<lxOne>>),
      Decl(<<"a">>, <<Str(<<"s">>)>>),
      Decl(<<"a">>, <<kwList, lxLP, lxRP>>),
      Decl(<<"a">>, ListOf2(<<lxOne>>, <<Str(<<"s">>)>>)),
      Decl(<<"a">>, <<kwTable, lxLP, lxLB, lxRB, lxRP>>),
      Decl(<<"a">>, TableOf2(<<"k">>, <<lxOne>>, <<"j">>, <<Str(<<"s">>)>>)),
      Decl(<<"a">>, <<lxOne>>) \o Decl(<<"b">>, <<lxDollar, <<"a">>, lxDollar>>),
      Decl(<<"a">>, <<kwList, lxLP, kwTable, lxLP, lxLB, <<"k">>, lxEq,
                      kwList, lxLP, Str(<<"s">>), lxRP, lxRB, lxRP, lxRP>>) }

\* the texts of the string literals that an edit can put in
PlainTexts == {<< >>, <<"t">>, <<")">>, <<"]">>, <<",">>, <<"=">>, <<";">>}

CommentLexemes == {lxLineComment, lxBlockComment}

EditLexemes ==
    {lxLP, lxRP, lxLB, lxRB, lxComma, lxEq, lxDollar, lxSemi}
        \cup {kwVar, kwList, <<"x">>, <<"x", "5">>}
        \cup {lxNum, lxInt, lxIntId, lxDot, lxNewline}
        \cup {Str(t) : t \in PlainTexts}
        \cup CommentLexemes \cup {lxLineCommentEnd, lxBlockOpen, lxTwoLineString}

NoEdit == [op |-> "none", at |-> 0, lx |-> << >>]

\* one edit of a lexeme sequence: a lexeme inserted after position at
\* (0 = in front), or the lexeme at a position replaced or deleted
Edits(base) ==
    {NoEdit}
        \cup {[op |-> "insert", at |-> p, lx |-> l] : p \in 0..Len(base), l \in EditLexemes}
        \cup {[op |-> "replace", at |-> p, lx |-> l] : p \in 1..Len(base), l \in EditLexemes}
        \cup {[op |-> "delete", at |-> p, lx |-> << >>] : p \in 1..Len(base)}

ApplyEdit(base, e) ==
    CASE e.op = "none" -> base
      [] e.op = "insert" -> SubSeq(base, 1, e.at) \o <<e.lx>> \o SubSeq(base, e.at + 1, Len(base))
      [] e.op = "replace" -> [i \in 1..Len(base) |-> IF i = e.at THEN e.lx ELSE base[i]]
      [] e.op = "delete" -> SubSeq(base, 1, e.at - 1) \o SubSeq(base, e.at + 1, Len(base))

(***************************************************************************)
(* Configs given by their declarations: a sequence of (name, value)        *)
(***************************************************************************)
\* the reference $name$, written without spaces
Ref(name) == <<"$">> \o name \o <<"$">>

lxDotted == <<"$", "a", ".", "b", "$">>

RECURSIVE ConfigOf(_)
ConfigOf(decls) ==
    IF decls = << >> THEN << >>
    ELSE Decl(decls[1].name, decls[1].value) \o ConfigOf(Tail(decls))

DeclSeqs(names, values, max) ==
    UNION {[1..k -> {[name |-> n, value |-> v] : n \in names, v \in values}] : k \in 1..max}

DistinctNames(decls) ==
    \A i, j \in 1..Len(decls) : i # j => decls[i].name # decls[j].name

MaxRefDecls == 2

\* list(table([k = $u$])): a reference to the undeclared u at depth two
NestedUndeclared ==
    <<kwList, lxLP, kwTable, lxLP, lxLB, <<"k">>, lxEq, Ref(<<"u">>), lxRB, lxRP, lxRP>>

RefNames == {<<"a">>, <<"b">>}

\* values with references to declared and undeclared names, dotted
\* references, and references nested in lists and tables
\* list(@")", $u$): follows the grammar, with a string whose text is )
ParenText == <<kwList, lxLP, Str(<<")">>), lxComma, Ref(<<"u">>), lxRP>>

RefValues ==
    { <<lxOne>>,
      <<Ref(<<"a">>)>>, <<Ref(<<"b">>)>>, <<Ref(<<"u">>)>>,
      <<Str(Ref(<<"a">>))>>, <<Str(<<"x">> \o Ref(<<"b">>))>>, <<Str(Ref(<<"u">>) \o <<"!">>)>>,
      <<lxDotted>>, <<Str(lxDotted)>>, <<Str(Ref(<<"u">>) \o lxDotted)>>,
      <<kwList, lxLP, Ref(<<"b">>), lxComma, Str(Ref(<<"u">>)), lxRP>>,
      NestedUndeclared, ParenText,
      <<kwTable, lxLP, lxLB, <<"k">>, lxEq, Str(Ref(<<"b">>)), lxRB, lxRP>> }

RefConfigs == DeclSeqs(RefNames, RefValues, MaxRefDecls)

MaxChainDecls == 4

ChainNames == {<<"m">>, <<"n">>, <<"c">>, <<"d">>}

\* values that chain the variables m, n, c, d through references
ListWithRef == <<kwList, lxLP, Ref(<<"n">>), lxComma, lxNum, lxRP>>

ChainValues ==
    { <<Ref(<<"n">>)>>, <<Str(Ref(<<"c">>))>>, <<Str(Ref(<<"d">>))>>, <<Str(<<"X">>)>>,
      ListWithRef }

ChainConfigs ==
    {ds \in DeclSeqs(ChainNames, ChainValues, MaxChainDecls) : DistinctNames(ds)}

(***************************************************************************)
(* The state machine: one call of parse_config_to_json at a time, run      *)
(* stage by stage                                                          *)
(***************************************************************************)
VARIABLES
    input,          \* how the text of the call was written: base lexemes, edit
                    \* and, for a config given by its declarations, these
    text,           \* the text passed to parse
    tokens,         \* self.tokens
    variables,      \* self.variables
    current_line,   \* self.current_line
    pc,             \* the stage parse is at
    result          \* what the call returned or raised

vars == <<input, text, tokens, variables, current_line, pc, result>>

NoResult == [ret |-> "none"]

NoInput == [base |-> << >>, edit |-> NoEdit, decls |-> << >>]

\* ConfigParser.__init__, before any call
Init ==
    /\ input = NoInput
    /\ text = << >>
    /\ tokens = << >>
    /\ variables = << >>
    /\ current_line = 1
    /\ pc = "idle"
    /\ result = NoResult

\* parse_config_to_json(text): a new ConfigParser, then parse(text)
Call(in) ==
    /\ pc = "idle"
    /\ input' = in
    /\ text' = Text(ApplyEdit(in.base, in.edit))
    /\ tokens' = << >>
    /\ variables' = << >>
    /\ current_line' = 1
    /\ pc' = "tokenize"
    /\ result' = NoResult

CallEdited ==
    \E b \in EditBases : \E e \in Edits(b) : Call([base |-> b, edit |-> e, decls |-> << >>])

\* self.tokens = self.tokenize(text)
Tokenize ==
    /\ pc = "tokenize"
    /\ LET r == tokenize(text, current_line)
       IN  /\ current_line' = r.line
           /\ IF r.ok
              THEN tokens' = r.tokens /\ pc' = "parse" /\ result' = result
              ELSE tokens' = tokens /\ pc' = "raised" /\ result' = Raised(r.err)
    /\ UNCHANGED <<input, text, variables>>

\* the loop over the tokens that parses the declarations
ParseDeclarations ==
    /\ pc = "parse"
    /\ LET r == ParseLoop(tokens, 1, variables)
       IN  /\ variables' = r.variables
           /\ IF r.ok
              THEN pc' = "substitute" /\ result' = result
              ELSE pc' = "raised" /\ result' = Raised(r.err)
    /\ UNCHANGED <<input, text, tokens, current_line>>

\* self.process_variable_substitution()
Substitute ==
    /\ pc = "substitute"
    /\ LET r == process_variable_substitution(variables)
       IN  /\ variables' = r.variables
           /\ IF r.ok
              THEN pc' = "convert" /\ result' = result
              ELSE pc' = "raised" /\ result' = Raised(r.err)
    /\ UNCHANGED <<input, text, tokens, current_line>>

\* return self.convert_variables()
Convert ==
    /\ pc = "convert"
    /\ result' = Returned(convert_variables(variables))
    /\ pc' = "done"
    /\ UNCHANGED <<input, text, tokens, variables, current_line>>

\* parse_config_to_json has returned or raised: its parser is dropped
Release ==
    /\ pc \in {"done", "raised"}
    /\ input' = NoInput
    /\ text' = << >>
    /\ tokens' = << >>
    /\ variables' = << >>
    /\ current_line' = 1
    /\ pc' = "idle"
    /\ result' = NoResult

CallRefs ==
    \E ds \in RefConfigs : Call([base |-> ConfigOf(ds), edit |-> NoEdit, decls |-> ds])

CallChain ==
    \E ds \in ChainConfigs : Call([base |-> ConfigOf(ds), edit |-> NoEdit, decls |-> ds])

Next == CallEdited \/ Tokenize \/ ParseDeclarations \/ Substitute \/ Convert \/ Release

Spec == Init /\ [][Next]_vars

NextRefs == CallRefs \/ Tokenize \/ ParseDeclarations \/ Substitute \/ Convert \/ Release

SpecRefs == Init /\ [][NextRefs]_vars

NextChain == CallChain \/ Tokenize \/ ParseDeclarations \/ Substitute \/ Convert \/ Release

SpecChain == Init /\ [][NextChain]_vars

(***************************************************************************)
(* The grammar of section 6 of the specification, read over the kinds of   *)
(* a token list: the position behind the phrase that starts at p, 0 when   *)
(* no such phrase starts there                                             *)
(***************************************************************************)
Kind(tk, p) == IF p \in 1..Len(tk) THEN tk[p].type ELSE "EOF"

RECURSIVE GValue(_, _)
RECURSIVE GListRest(_, _)
RECURSIVE GTableRest(_, _)

\* after an element of a list: ')' ends it, ',' must bring another element
GListRest(tk, p) ==
    IF Kind(tk, p) = ")" THEN p + 1
    ELSE IF Kind(tk, p) = "," /\ GValue(tk, p + 1) # 0 THEN GListRest(tk, GValue(tk, p + 1))
    ELSE 0

GEntry(tk, p) ==
    IF Kind(tk, p) = "ID" /\ Kind(tk, p + 1) = "=" THEN GValue(tk, p + 2) ELSE 0

\* after an entry of a table: ']' ')' ends it, ',' must bring another entry
GTableRest(tk, p) ==
    IF Kind(tk, p) = "]" THEN (IF Kind(tk, p + 1) = ")" THEN p + 2 ELSE 0)
    ELSE IF Kind(tk, p) = "," /\ GEntry(tk, p + 1) # 0 THEN GTableRest(tk, GEntry(tk, p + 1))
    ELSE 0

GValue(tk, p) ==
    CASE Kind(tk, p) \in {"NUMBER", "STRING"} -> p + 1
      [] Kind(tk, p) = "$" ->
           IF Kind(tk, p + 1) = "ID" /\ Kind(tk, p + 2) = "$" THEN p + 3 ELSE 0
      [] Kind(tk, p) = "LIST" ->
           IF Kind(tk, p + 1) # "(" THEN 0
           ELSE IF Kind(tk, p + 2) = ")" THEN p + 3
           ELSE IF GValue(tk, p + 2) # 0 THEN GListRest(tk, GValue(tk, p + 2))
           ELSE 0
      [] Kind(tk, p) = "TABLE" ->
           IF Kind(tk, p + 1) # "(" \/ Kind(tk, p + 2) # "[" THEN 0
           ELSE IF Kind(tk, p + 3) = "]" THEN (IF Kind(tk, p + 4) = ")" THEN p + 5 ELSE 0)
           ELSE IF GEntry(tk, p + 3) # 0 THEN GTableRest(tk, GEntry(tk, p + 3))
           ELSE 0
      [] OTHER -> 0

\* declaration := "var" IDENT "=" value ";"
GDecl(tk, p) ==
    IF Kind(tk, p) = "VAR" /\ Kind(tk, p + 1) = "ID" /\ Kind(tk, p + 2) = "="
       /\ GValue(tk, p + 3) # 0 /\ Kind(tk, GValue(tk, p + 3)) = ";"
    THEN GValue(tk, p + 3) + 1
    ELSE 0

\* config := declaration*
RECURSIVE GConfig(_, _)
GConfig(tk, p) ==
    IF p > Len(tk) THEN TRUE
    ELSE IF GDecl(tk, p) = 0 THEN FALSE
    ELSE GConfig(tk, GDecl(tk, p))

Without(tk, p) == SubSeq(tk, 1, p - 1) \o SubSeq(tk, p + 1, Len(tk))

\* the token at p is a comma right in front of the ')' that closes a list,
\* or right in front of the ']' that closes the entries of a table, of a
\* config that is valid but for this comma
TrailingComma(tk, p) ==
    /\ Kind(tk, p) = ","
    /\ \/ Kind(tk, p + 1) = ")" /\ Kind(tk, p - 1) # "]"
       \/ Kind(tk, p + 1) = "]"
    /\ GConfig(Without(tk, p), 1)

Finished == pc \in {"done", "raised"}

RaisedKind(kind) == pc = "raised" /\ result.ret = "raise" /\ result.err.kind = kind

\* the lexemes of the text of the call
Lexemes == ApplyEdit(input.base, input.edit)

(***************************************************************************)
(* C1: a list or table with a comma right in front of its closing ')' or   *)
(* ']' makes parse fail with SyntaxError.                                  *)
(***************************************************************************)
C1_TrailingCommaRejected ==
    (Finished /\ \E p \in 1..Len(tokens) : TrailingComma(tokens, p))
        => RaisedKind("SyntaxError")

(***************************************************************************)
(* C2: a var token that is not followed by exactly an identifier, the '='  *)
(* token, a value and the ';' token makes parse fail with SyntaxError.     *)
(***************************************************************************)
C2_DeclarationComponentsMandatory ==
    (Finished /\ \E p \in 1..Len(tokens) : tokens[p].type = "VAR" /\ GDecl(tokens, p) = 0)
        => RaisedKind("SyntaxError")

(***************************************************************************)
(* C3: a string literal @"text" without '"' and '$', put in the place of   *)
(* a value (declaration value, list element, table value) of a valid       *)
(* config, parses and materializes to exactly that text in that place.     *)
(***************************************************************************)
\* the scalar values of the bases: each stands in the place of a value
ScalarLexemes == {lxOne, Str(<<"s">>)}

\* the text between @" and " of a string literal
LiteralText(lx) == Slice(lx, 3, Len(lx) - 1)

Materialized(lx) ==
    IF lx = lxOne THEN [py |-> "float", value |-> ToFloat("+", <<"1">>, <<"0">>)]
    ELSE [py |-> "str", value |-> LiteralText(lx)]

\* the output out with every leaf equal to old replaced by new
RECURSIVE ReplaceLeaf(_, _, _)
ReplaceLeaf(out, old, new) ==
    CASE out = old -> new
      [] out.py = "list" ->
           [py |-> "list", values |-> [i \in 1..Len(out.values) |->
                                          ReplaceLeaf(out.values[i], old, new)]]
      [] out.py = "dict" ->
           [py |-> "dict", items |-> [i \in 1..Len(out.items) |->
               [k |-> out.items[i].k, v |-> ReplaceLeaf(out.items[i].v, old, new)]]]
      [] OTHER -> out

C3_StringRoundTrip ==
    (/\ Finished
     /\ input.edit.op = "replace"
     /\ input.base[input.edit.at] \in ScalarLexemes
     /\ input.edit.lx \in {Str(t) : t \in PlainTexts})
        => /\ pc = "done"
           /\ result = Returned(ReplaceLeaf(parse_config_to_json(Text(input.base)).value,
                                            Materialized(input.base[input.edit.at]),
                                            Materialized(input.edit.lx)))

(***************************************************************************)
(* C9: a run of digits that is not part of an identifier, of a number      *)
(* literal with a decimal point, of a string literal or of a comment makes *)
(* parse fail with SyntaxError, inside and outside declarations.           *)
(***************************************************************************)
\* lexemes that begin with a bare run of digits: 10 and 5x
BareDigitLexemes == {lxInt, lxIntId}

\* the edit puts a bare run of digits between the tokens of a valid config
BareDigitsPut ==
    input.edit.op \in {"insert", "replace"} /\ input.edit.lx \in BareDigitLexemes

C9_IntegersRejected == (Finished /\ BareDigitsPut) => RaisedKind("SyntaxError")

C9_Witness ==
    /\ BareDigitsPut
    /\ input.edit.lx = lxInt
    /\ input.edit.at = Len(input.base)
    /\ RaisedKind("SyntaxError")

(***************************************************************************)
(* C10: a line comment or a terminated block comment inserted between two  *)
(* tokens, in front of the first or behind the last token of an input that *)
(* parses leaves the materialized output as it is.                         *)
(***************************************************************************)
AllCommentLexemes == CommentLexemes \cup {lxLineCommentEnd, lxBlockOpen}

InsertAt(lexemes, p, lx) == SubSeq(lexemes, 1, p) \o <<lx>> \o SubSeq(lexemes, p + 1, Len(lexemes))

\* the texts with one comment between two lexemes of the text of the call,
\* in front of it, or behind it (there also a line comment without newline)
Commented ==
    {Text(InsertAt(Lexemes, p, c)) : p \in 0..Len(Lexemes), c \in CommentLexemes}
        \cup {Text(InsertAt(Lexemes, Len(Lexemes), lxLineCommentEnd))}

Occurs(part, s) == Find(s, part, 1) # 0

IsStringLexeme(lx) == StartsWithAt(lx, 1, <<"@", "\"">>)

Declared(decls) == {decls[i].name : i \in 1..Len(decls)}

\* the declarations whose binding is the final one of their name
Final(decls) == {i \in 1..Len(decls) : \A j \in (i + 1)..Len(decls) : decls[j].name # decls[i].name}

\* the names that the value refers to, standalone ($x$) or in a string
RefsOf(value) ==
    {n \in RefNames \cup ChainNames \cup {<<"u">>} :
        \E i \in 1..Len(value) : Occurs(Ref(n), value[i])}

StandaloneDotted(value) == \E i \in 1..Len(value) : value[i] = lxDotted

EmbeddedDotted(value) ==
    \E i \in 1..Len(value) : IsStringLexeme(value[i]) /\ Occurs(lxDotted, value[i])

\* a final binding refers to a name that is never declared
UndeclaredReference(decls) ==
    \E i \in Final(decls) : RefsOf(decls[i].value) \ Declared(decls) # {}

\* the declared names reached from the names of S in at most k references
RECURSIVE Reached(_, _, _)
Reached(decls, S, k) ==
    IF k = 0 THEN S
    ELSE Reached(decls,
                 S \cup {n \in Declared(decls) :
                            \E i \in Final(decls) : decls[i].name \in S /\ n \in RefsOf(decls[i].value)},
                 k - 1)

\* no variable refers to itself, directly or through other variables
Acyclic(decls) ==
    \A i \in Final(decls) :
        decls[i].name \notin Reached(decls, RefsOf(decls[i].value) \cap Declared(decls), Len(decls))

(***************************************************************************)
(* C4: a dotted reference $a.b$ in a declared value, standalone or in a    *)
(* string literal, always makes parse raise SyntaxError, whatever else the *)
(* config declares and refers to.                                          *)
(***************************************************************************)
C4_DottedAlwaysSyntaxError ==
    (/\ Finished
     /\ \E i \in 1..Len(input.decls) :
            StandaloneDotted(input.decls[i].value) \/ EmbeddedDotted(input.decls[i].value))
        => RaisedKind("SyntaxError")

(***************************************************************************)
(* C4 as amended: a standalone dotted reference always makes parse raise   *)
(* SyntaxError; a dotted reference in a string literal of the final        *)
(* binding of a variable never lets parse return a result: parse raises    *)
(* SyntaxError unless an undeclared name (NameError) or a reference cycle  *)
(* (RecursionError) of the config is met first.                            *)
(***************************************************************************)
C4_DottedNeverResolved ==
    /\ (Finished /\ \E i \in 1..Len(input.decls) : StandaloneDotted(input.decls[i].value))
           => RaisedKind("SyntaxError")
    /\ (Finished /\ \E i \in Final(input.decls) : EmbeddedDotted(input.decls[i].value))
           => \/ RaisedKind("SyntaxError")
              \/ RaisedKind("NameError") /\ UndeclaredReference(input.decls)
              \/ RaisedKind("RecursionError") /\ ~Acyclic(input.decls)

C4_Witness ==
    /\ Len(input.decls) = 2
    /\ \E i \in Final(input.decls) : EmbeddedDotted(input.decls[i].value)
    /\ \E i \in 1..Len(input.decls) : <<"a">> \in RefsOf(input.decls[i].value)
    /\ <<"a">> \in Declared(input.decls)
    /\ ~UndeclaredReference(input.decls)
    /\ RaisedKind("SyntaxError")

(***************************************************************************)
(* C5: in a config that is syntactically valid otherwise, a reference, at  *)
(* any depth of a final binding, to a name that is never declared makes    *)
(* parse raise NameError and return no result.                             *)
(***************************************************************************)
NoDotted(decls) ==
    \A i \in 1..Len(decls) : ~StandaloneDotted(decls[i].value) /\ ~EmbeddedDotted(decls[i].value)

\* the lexer and the parser accept the text of the call
Accepted ==
    LET t == tokenize(text, 1)
    IN  t.ok /\ ParseLoop(t.tokens, 1, << >>).ok

\* the config has no syntax error: lexer and parser accept it and no string
\* holds a dotted reference
SyntacticallyValid == Accepted /\ NoDotted(input.decls)

IsZero(f) == f.ip = 0 /\ f.fr = << >>

RECURSIVE PyEq(_, _)
PyEq(x, y) ==
    IF "py" \notin DOMAIN x \/ "py" \notin DOMAIN y THEN x = y
    ELSE IF x.py # y.py THEN FALSE
    ELSE CASE x.py = "float" -> x.value = y.value \/ (IsZero(x.value) /\ IsZero(y.value))
           [] x.py = "str" -> x.value = y.value
           [] x.py = "list" ->
                /\ Len(x.values) = Len(y.values)
                /\ \A i \in 1..Len(x.values) : PyEq(x.values[i], y.values[i])
           [] x.py = "dict" ->
                /\ {x.items[i].k : i \in 1..Len(x.items)} = {y.items[i].k : i \in 1..Len(y.items)}
                /\ \A i \in 1..Len(x.items) :
                       PyEq(x.items[i].v, DictGet(y.items, x.items[i].k))

\* the materialized value of the variable name in the output of the call
Out(name) == DictGet(result.value.items, name)

(***************************************************************************)
(* C6: in an acyclic config, a variable declared as $n$ materializes to    *)
(* the materialized value of n, and so does a $n$ inside a list, in every  *)
(* order of the declarations.                                              *)
(***************************************************************************)
C6_ReferencePreservesValue ==
    (pc = "done" /\ Acyclic(input.decls))
        => \A i \in 1..Len(input.decls) :
              /\ input.decls[i].value = <<Ref(<<"n">>)>>
                     => PyEq(Out(input.decls[i].name), Out(<<"n">>))
              /\ input.decls[i].value = ListWithRef
                     => /\ Out(input.decls[i].name).py = "list"
                        /\ PyEq(Out(input.decls[i].name).values[1], Out(<<"n">>))

(***************************************************************************)
(* C7: an acyclic config with pairwise distinct names materializes to the  *)
(* same output in every order of its declarations.                         *)
(***************************************************************************)
Perms(k) == {f \in [1..k -> 1..k] : \A i, j \in 1..k : i # j => f[i] # f[j]}

Permuted(decls, f) == [i \in 1..Len(decls) |-> decls[f[i]]]

C7_OrderOfDeclarationsIrrelevant ==
    (pc = "done" /\ Acyclic(input.decls) /\ DistinctNames(input.decls))
        => \A f \in Perms(Len(input.decls)) :
              LET r == parse_config_to_json(Text(ConfigOf(Permuted(input.decls, f))))
              IN  r.ret = "value" /\ PyEq(r.value, result.value)

(***************************************************************************)
(* C8: when parse returns, no resolved tree holds a VarRefValue or a       *)
(* string with a $name$ span of a declared name, and the output is made of *)
(* numbers, strings, lists and mappings only.                              *)
(***************************************************************************)
RECURSIVE Resolved(_, _)
Resolved(value, names) ==
    CASE value.t = "VarRef" -> FALSE
      [] value.t = "String" -> \A n \in names : ~Occurs(Ref(n), value.value)
      [] value.t = "List" -> \A i \in 1..Len(value.values) : Resolved(value.values[i], names)
      [] value.t = "Table" -> \A i \in 1..Len(value.items) : Resolved(value.items[i].v, names)
      [] OTHER -> TRUE

RECURSIVE Plain(_)
Plain(out) ==
    /\ "py" \in DOMAIN out
    /\ CASE out.py = "list" -> \A i \in 1..Len(out.values) : Plain(out.values[i])
         [] out.py = "dict" -> \A i \in 1..Len(out.items) : Plain(out.items[i].v)
         [] OTHER -> out.py \in {"float", "str"}

C8_NothingLeftUnresolved ==
    pc = "done"
        => /\ \A i \in 1..Len(variables) :
                  Resolved(variables[i].v, {variables[j].k : j \in 1..Len(variables)})
           /\ Plain(result.value)

(***************************************************************************)
(* C11: a table that is the value of a declaration, written correctly up   *)
(* to its ']', is accepted only if the token right behind this ']' is ')': *)
(* any other token there, or the end of the tokens, makes parse fail with  *)
(* SyntaxError.                                                            *)
(***************************************************************************)
\* the position of the ']' that ends the entries, for p behind an entry
RECURSIVE EntriesClose(_, _)
EntriesClose(tk, p) ==
    IF Kind(tk, p) = "]" THEN p
    ELSE IF Kind(tk, p) = "," /\ GEntry(tk, p + 1) # 0 THEN EntriesClose(tk, GEntry(tk, p + 1))
    ELSE 0

\* the position of the ']' of the table whose table token is at p, 0 when
\* the table is not written correctly up to there
TableClose(tk, p) ==
    IF Kind(tk, p) # "TABLE" \/ Kind(tk, p + 1) # "(" \/ Kind(tk, p + 2) # "[" THEN 0
    ELSE IF Kind(tk, p + 3) = "]" THEN p + 3
    ELSE IF GEntry(tk, p + 3) # 0 THEN EntriesClose(tk, GEntry(tk, p + 3))
    ELSE 0

\* the value of the declaration at p is a table whose ']' is not followed by ')'
UnclosedTable(tk, p) ==
    /\ Kind(tk, p) = "VAR" /\ Kind(tk, p + 1) = "ID" /\ Kind(tk, p + 2) = "="
    /\ TableClose(tk, p + 3) # 0
    /\ Kind(tk, TableClose(tk, p + 3) + 1) # ")"

C11_TableClosedByParen ==
    (Finished /\ \E p \in 1..Len(tokens) : UnclosedTable(tokens, p))
        => RaisedKind("SyntaxError")

(***************************************************************************)
(* C12: the line recorded in each token of a new parser is 1 plus the      *)
(* number of newline characters in front of the first character of the     *)
(* token in the text, those inside comments and string literals included.  *)
(***************************************************************************)
\* the positions in s at which the loop of tokenize, run from i, appends a token
RECURSIVE TokenStarts(_, _)
TokenStarts(s, i) ==
    IF i > Len(s) THEN << >>
    ELSE LET st == LexStep(s, i, 1)
         IN  IF st.act # "go" THEN << >>
             ELSE (IF st.toks = << >> THEN << >> ELSE <<i>>) \o TokenStarts(s, st.next)

NewlinesBefore(s, p) == Cardinality({q \in 1..(p - 1) : s[q] = "\n"})

C12_LineTracking ==
    \A k \in 1..Len(tokens) :
        tokens[k].line = 1 + NewlinesBefore(text, TokenStarts(text, 1)[k])

(***************************************************************************)
(* C13: when no variable refers to itself, directly or through other       *)
(* variables, by standalone references or references in strings,           *)
(* resolution terminates; when a variable of a config that is valid        *)
(* otherwise and refers to declared names only does refer to itself, the   *)
(* resolver recurses without end and parse returns no result (Python ends  *)
(* the recursion with RecursionError).                                     *)
(***************************************************************************)
C13_TerminationOfResolution ==
    /\ (Finished /\ Acyclic(input.decls)) => ~RaisedKind("RecursionError")
    /\ (/\ Finished
        /\ SyntacticallyValid
        /\ ~UndeclaredReference(input.decls)
        /\ ~Acyclic(input.decls))
           => RaisedKind("RecursionError")

(***************************************************************************)
(* One ConfigParser used for several calls of parse: self.variables and    *)
(* self.current_line are assigned in __init__ only, so a later call starts *)
(* from what the earlier calls left in them.                               *)
(***************************************************************************)
\* the configs that are parsed one after the other
ReuseConfigs ==
    { Decl(<<"a">>, <<lxOne>>),
      Decl(<<"b">>, <<Ref(<<"a">>)>>),
      Decl(<<"b">>, <<Str(<<"s">>)>>) \o <<lxNewline>>,
      Decl(<<"c">>, <<Str(Ref(<<"b">>))>>) \o <<lxNewline, kwVar>>,
      <<lxNewline, lxInt>> \o Decl(<<"c">>, <<lxOne>>) }

\* the calls of parse on one parser stop once its line counter is past this
MaxLine == 3

\* parser = ConfigParser(); parser.parse(text)
CallNew ==
    \E b \in ReuseConfigs : Call([base |-> b, edit |-> NoEdit, decls |-> << >>])

\* parser.parse(text) once more, on the parser of the call that has ended
CallAgain ==
    /\ pc \in {"done", "raised"}
    /\ current_line <= MaxLine
    /\ \E b \in ReuseConfigs :
          /\ input' = [base |-> b, edit |-> NoEdit, decls |-> << >>]
          /\ text' = Text(b)
    /\ pc' = "tokenize"
    /\ result' = NoResult
    /\ UNCHANGED <<tokens, variables, current_line>>

NextReuse ==
    CallNew \/ CallAgain \/ Tokenize \/ ParseDeclarations \/ Substitute \/ Convert \/ Release

SpecReuse == Init /\ [][NextReuse]_vars

(***************************************************************************)
(* C14: every call of parse, also one on a parser that has been used       *)
(* before and one that follows a failed call, ends as the call of a new    *)
(* parser on the same text ends: with an equal mapping, or with the same   *)
(* error reporting the same line.                                          *)
(***************************************************************************)
SameOutcome(r, f) ==
    /\ r.ret = f.ret
    /\ r.ret = "raise" => r.err = f.err
    /\ r.ret = "value" => PyEq(r.value, f.value)

C14_NoStateCrossesCalls ==
    Finished => SameOutcome(result, parse_config_to_json(text))

(***************************************************************************)
(* Configs whose strings hold several references                           *)
(***************************************************************************)
MaxPassDecls == 3

PassNames == {<<"s">>, <<"a">>, <<"b">>}

\* @"$a$ $b$": two references in one string
lxTwoRefs == Str(Ref(<<"a">>) \o <<" ">> \o Ref(<<"b">>))

PassValues ==
    { <<lxTwoRefs>>, <<Str(Ref(<<"b">>))>>, <<Str(<<"Y">>)>>, <<lxOne>>,
      <<kwList, lxLP, Str(Ref(<<"b">>)), lxRP>> }

PassConfigs ==
    {ds \in DeclSeqs(PassNames, PassValues, MaxPassDecls) : DistinctNames(ds)}

CallPass ==
    \E ds \in PassConfigs : Call([base |-> ConfigOf(ds), edit |-> NoEdit, decls |-> ds])

NextPass == CallPass \/ Tokenize \/ ParseDeclarations \/ Substitute \/ Convert \/ Release

SpecPass == Init /\ [][NextPass]_vars

(***************************************************************************)
(* C15: the string of the first declaration resolves in a single pass:     *)
(* every $name$ span of the string as written is replaced by the text of   *)
(* its referent, and the text put in is left as it is, also when it holds  *)
(* a span that names another reference of the string.                      *)
(***************************************************************************)
\* s from i on, with every span $name$ replaced by F[name] and nothing of
\* what is put in looked at again
RECURSIVE SinglePass(_, _, _)
SinglePass(s, i, F) ==
    IF i > Len(s) THEN << >>
    ELSE IF s[i] # "$" THEN <<s[i]>> \o SinglePass(s, i + 1, F)
    ELSE LET hits == {k \in (i + 1)..Len(s) : s[k] \in {"$", "\n"}}
             j == IF hits = {} THEN 0 ELSE CHOOSE k \in hits : \A h \in hits : k <= h
         IN  IF j > i + 1 /\ s[j] = "$" /\ Slice(s, i + 1, j - 1) \in DOMAIN F
             THEN F[Slice(s, i + 1, j - 1)] \o SinglePass(s, j + 1, F)
             ELSE <<s[i]>> \o SinglePass(s, i + 1, F)

\* the bindings as the parser leaves them, before any of them is resolved
Parsed == ParseLoop(tokenize(text, 1).tokens, 1, << >>).variables

\* the text that the resolver puts in for a reference to name
TextualForm(name) == get_string_value(DictGet(Parsed, name), Parsed, Len(Parsed)).val

C15_SinglePassSubstitution ==
    (/\ pc = "done"
     /\ input.decls # << >>
     /\ Len(input.decls[1].value) = 1
     /\ IsStringLexeme(input.decls[1].value[1])
     /\ RefsOf(input.decls[1].value) # {}
     /\ RefsOf(input.decls[1].value) \subseteq Declared(input.decls))
        => LET s == LiteralText(input.decls[1].value[1])
               F == [n \in RefsOf(input.decls[1].value) |-> TextualForm(n)]
           IN  Out(input.decls[1].name) = [py |-> "str", value |-> SinglePass(s, 1, F)]

=============================================================================
